---------------------------- MODULE Spec2Model ----------------------------
(***************************************************************************)
(* n3rdfeed: scoring, greedy clustering, the in-memory feed cache with its *)
(* background rebuilds, and the digest curation pipeline.                  *)
(*                                                                         *)
(* Numbers.  JavaScript doubles are modelled by exact integers:            *)
(*   - a score is kept in units of 1/2000 (log10 to four decimals, times   *)
(*     the source weight in tenths, times the velocity bonus in halves);   *)
(*   - a cluster total is kept in units of 1/10000 (5 * main + related);   *)
(*   - a cosine similarity is kept as the exact signed fraction            *)
(*     sgn * dot^2 / (normA * normB), or NaN.                              *)
(* Strings that the code takes apart (URLs) are sequences of tokens.       *)
(***************************************************************************)
EXTENDS Integers, Sequences, FiniteSets, TLC

(***************************************************************************)
(* Bounds of the model.                                                    *)
(***************************************************************************)
MaxPosts == 4          \* posts in the item store of SpecCluster
MaxRuns == 2           \* rebuildFeed invocations in one behaviour of Spec
MaxClock == 1          \* ticks of the wall clock in one behaviour of Spec
MaxDigests == 1        \* digest requests in one behaviour of Spec
MaxMissing == 1        \* rows of Pool missing from the store of SpecCurate
MaxHistory == 2        \* records in the digest history of SpecCurate

(***************************************************************************)
(* Program constants.                                                      *)
(***************************************************************************)
MAX_PER_CATEGORY == 3
MAX_DIGEST_CLUSTERS == 8

(***************************************************************************)
(* Values.                                                                 *)
(***************************************************************************)
Emb(v) == [has |-> TRUE, v |-> v]
NoEmbedding == [has |-> FALSE, v |-> <<>>]

Url(scheme, host, path) == [has |-> TRUE, scheme |-> scheme, host |-> host, path |-> path]
NoUrl == [has |-> FALSE, scheme |-> "", host |-> <<>>, path |-> <<>>]

Post(id, source, stars, comments, hoursAge, embedding, url, words, history) ==
    [id |-> id, source |-> source, stars |-> stars, stars_numeric |-> TRUE,
     comments_count |-> comments,
     hoursAge |-> hoursAge, embedding |-> embedding, url |-> url, words |-> words,
     metrics_history |-> history]

\* One snapshot of a row's metrics history: taken hoursAgo hours ago.
Snap(hoursAgo, score) == [hoursAgo |-> hoursAgo, score |-> score]

(***************************************************************************)
(* The rows the item store can hold.  (id, source) is the key of a row;    *)
(* rows 1 and 4 share an id across two sources.                            *)
(***************************************************************************)
Pool ==
    <<
    Post("gh1", "github", 500, 0, 1, Emb(<<1, 0>>),
         Url("https://", <<"github.com">>, <<"/", "o", "/", "r">>),
         {"llm"}, <<>>),
    Post("hn_1", "hackernews", 100, 9, 2, Emb(<<9, 1>>),
         Url("https://", <<"blog.org">>, <<"/", "p">>),
         {"llm", "agent"}, <<>>),
    Post("rd1", "reddit", 50, 0, 30, NoEmbedding,
         Url("https://", <<"WWW.", "GitHub.com">>, <<"/", "o", "/", "r", "/">>),
         {"gpt"}, <<>>),
    Post("gh1", "huggingface", 40, 0, 1, Emb(<<0, 1>>),
         Url("https://", <<"huggingface.co">>, <<"/", "m">>),
         {"image"}, <<>>),
    Post("rp1", "replicate", 3000, 0, 2, Emb(<<1, 1>>),
         Url("https://", <<"replicate.com">>, <<"/", "m">>),
         {"image", "inference"}, <<>>),
    Post("gh2", "github", 30, 0, 5, Emb(<<0, 0>>),
         Url("https://", <<"github.com">>, <<"/", "o", "/", "v">>),
         {"video"}, <<>>),
    Post("hf2", "huggingface", 20, 0, 1, Emb(<<-1, 1>>),
         Url("https://", <<"huggingface.co">>, <<"/", "d">>),
         {"diffusion"}, <<Snap(5, 10), Snap(1, 15)>>),
    Post("rd2", "reddit", 200, 0, 1, Emb(<<10, 17, 3, 1, 1>>),
         NoUrl,
         {"vision"}, <<>>),
    Post("hn_2", "hackernews", 10, 99, 3, NoEmbedding,
         Url("http://", <<"blog.org">>, <<"/", "a">>),
         {"audio"}, <<>>),
    Post("gh3", "github", 0, 0, 10, Emb(<<-1, 0>>),
         Url("https://", <<"github.com">>, <<"/", "o", "/", "g">>),
         {}, <<>>),
    Post("rd3", "reddit", 80, 0, 4, Emb(<<0, -1>>),
         Url("", <<"www.", "reddit.com">>, <<"/", "R", ".git">>),
         {"gpt"}, <<>>),
    Post("rp2", "replicate", 900, 0, 6, Emb(<<-1, -1>>),
         Url("https://", <<"replicate.com">>, <<"/", "c">>),
         {"chat"}, <<>>),
    Post("gh4", "github", 30, 0, 5, Emb(<<1, -1>>),
         Url("https://", <<"github.com">>, <<"/", "o", "/", "d">>),
         {"detection"}, <<>>),
    Post("hn_3", "hackernews", 48, 9, 30, NoEmbedding,
         Url("https://", <<"github.com">>, <<"/", "x", "/", "y">>),
         {"robot"}, <<>>),
    Post("rd4", "reddit", 9, 0, 30, NoEmbedding,
         Url("", <<"WWW.", "github.com">>, <<"/", "o", "/", "z">>),
         {"gpt"}, <<>>),
    Post("hn_4", "hackernews", 20, 0, 30, NoEmbedding,
         Url("", <<"www.", "github.com">>, <<"/", "o", "/", "z">>),
         {"gpt"}, <<>>),
    Post("hn_5", "hackernews", 30, 0, 30, NoEmbedding,
         Url("https://", <<"github.com">>, <<"/", "o", "/", "r", ".git">>),
         {"llm"}, <<>>),
    Post("gh5", "github", 500, 0, 30, Emb(<<2, 1>>),
         Url("https://", <<"github.com">>, <<"/", "o", "/", "c">>),
         {"llm"}, <<>>),
    Post("hf3", "huggingface", 40, 0, 30, NoEmbedding,
         Url("https://", <<"huggingface.co">>, <<"/", "z">>),
         {"image"}, <<>>)
    >>

PoolIdx == 1..Len(Pool)

(***************************************************************************)
(* Sequence helpers.                                                       *)
(***************************************************************************)
RECURSIVE SumOver(_, _)
SumOver(f, S) ==
    IF S = {} THEN 0
    ELSE LET x == CHOOSE y \in S : TRUE IN f[x] + SumOver(f, S \ {x})

Range(s) == {s[i] : i \in 1..Len(s)}

StripLast(s, tok) ==
    IF Len(s) > 0 /\ s[Len(s)] = tok THEN SubSeq(s, 1, Len(s) - 1) ELSE s

RemoveFirst(s, tok) ==
    IF \E i \in 1..Len(s) : s[i] = tok
    THEN LET k == CHOOSE i \in 1..Len(s) : s[i] = tok /\ \A j \in 1..(i - 1) : s[j] # tok
         IN SubSeq(s, 1, k - 1) \o SubSeq(s, k + 1, Len(s))
    ELSE s

Lower(tok) ==
    CASE tok = "WWW." -> "www."
      [] tok = "GitHub.com" -> "github.com"
      [] tok = "R" -> "r"
      [] tok = ".GIT" -> ".git"
      [] OTHER -> tok

LowerAll(s) == [i \in 1..Len(s) |-> Lower(s[i])]

(***************************************************************************)
(* scorePost (db.ts).                                                      *)
(***************************************************************************)
\* sourceWeights, in tenths; an unknown source weighs 1.0.
SourceWeight10(source) ==
    CASE source = "github" -> 18
      [] source = "hackernews" -> 11
      [] source = "huggingface" -> 11
      [] source = "reddit" -> 8
      [] source = "replicate" -> 6
      [] OTHER -> 10

\* Math.log10(comments + 1) for the comment counts of the pool.
Log10Int(n) == CASE n = 1 -> 0 [] n = 10 -> 1 [] n = 100 -> 2

\* Base points in hundredths: stars, divided by 100 for replicate, plus
\* log10(comments + 1) * 2 for hackernews.
BasePoints100(post) ==
    LET points == IF post.stars_numeric /\ post.stars # 0 THEN post.stars ELSE 0
        stars100 == IF post.source = "replicate" THEN points ELSE points * 100
    IN IF post.source = "hackernews"
       THEN stars100 + Log10Int(post.comments_count + 1) * 2 * 100
       ELSE stars100

\* round(10000 * log10(points / (hoursAge + 2)^1.2 + 1)), keyed by
\* <<points in hundredths, hoursAge>>, for the points and ages of the pool.
GravityLog ==
    <<0, 0>> :> 0 @@ <<0, 1>> :> 0 @@ <<0, 2>> :> 0 @@ <<0, 3>> :> 0 @@
    <<0, 4>> :> 0 @@ <<0, 5>> :> 0 @@ <<0, 6>> :> 0 @@ <<0, 10>> :> 0 @@
    <<0, 30>> :> 0 @@ <<900, 0>> :> 6917 @@ <<900, 1>> :> 5325 @@ <<900, 2>> :> 4322 @@
    <<900, 3>> :> 3626 @@ <<900, 4>> :> 3114 @@ <<900, 5>> :> 2721 @@
    <<900, 6>> :> 2411 @@ <<900, 10>> :> 1632 @@ <<900, 30>> :> 571 @@
    <<1400, 0>> :> 8509 @@ <<1400, 1>> :> 6763 @@ <<1400, 2>> :> 5626 @@
    <<1400, 3>> :> 4814 @@ <<1400, 4>> :> 4201 @@ <<1400, 5>> :> 3720 @@
    <<1400, 6>> :> 3334 @@ <<1400, 10>> :> 2329 @@ <<1400, 30>> :> 859 @@
    <<2000, 0>> :> 9870 @@ <<2000, 1>> :> 8029 @@ <<2000, 2>> :> 6803 @@
    <<2000, 3>> :> 5910 @@ <<2000, 4>> :> 5224 @@ <<2000, 5>> :> 4678 @@
    <<2000, 6>> :> 4231 @@ <<2000, 10>> :> 3040 @@ <<2000, 30>> :> 1181 @@
    <<3000, 0>> :> 11479 @@ <<3000, 1>> :> 9556 @@ <<3000, 2>> :> 8250 @@
    <<3000, 3>> :> 7282 @@ <<3000, 4>> :> 6526 @@ <<3000, 5>> :> 5915 @@
    <<3000, 6>> :> 5408 @@ <<3000, 10>> :> 4016 @@ <<3000, 30>> :> 1669 @@
    <<4000, 0>> :> 12651 @@ <<4000, 1>> :> 10683 @@ <<4000, 2>> :> 9334 @@
    <<4000, 3>> :> 8324 @@ <<4000, 4>> :> 7527 @@ <<4000, 5>> :> 6877 @@
    <<4000, 6>> :> 6333 @@ <<4000, 10>> :> 4811 @@ <<4000, 30>> :> 2109 @@
    <<5000, 0>> :> 13572 @@ <<5000, 1>> :> 11577 @@ <<5000, 2>> :> 10201 @@
    <<5000, 3>> :> 9163 @@ <<5000, 4>> :> 8340 @@ <<5000, 5>> :> 7664 @@
    <<5000, 6>> :> 7096 @@ <<5000, 10>> :> 5484 @@ <<5000, 30>> :> 2507 @@
    <<8000, 0>> :> 15542 @@ <<8000, 1>> :> 13504 @@ <<8000, 2>> :> 12084 @@
    <<8000, 3>> :> 11002 @@ <<8000, 4>> :> 10136 @@ <<8000, 5>> :> 9417 @@
    <<8000, 6>> :> 8807 @@ <<8000, 10>> :> 7038 @@ <<8000, 30>> :> 3522 @@
    <<10200, 0>> :> 16570 @@ <<10200, 1>> :> 14517 @@ <<10200, 2>> :> 13080 @@
    <<10200, 3>> :> 11983 @@ <<10200, 4>> :> 11099 @@ <<10200, 5>> :> 10364 @@
    <<10200, 6>> :> 9737 @@ <<10200, 10>> :> 7904 @@ <<10200, 30>> :> 4139 @@
    <<20000, 0>> :> 19448 @@ <<20000, 1>> :> 17365 @@ <<20000, 2>> :> 15899 @@
    <<20000, 3>> :> 14770 @@ <<20000, 4>> :> 13855 @@ <<20000, 5>> :> 13088 @@
    <<20000, 6>> :> 12429 @@ <<20000, 10>> :> 10469 @@ <<20000, 30>> :> 6154 @@
    <<50000, 0>> :> 23397 @@ <<50000, 1>> :> 21297 @@ <<50000, 2>> :> 19811 @@
    <<50000, 3>> :> 18662 @@ <<50000, 4>> :> 17726 @@ <<50000, 5>> :> 16937 @@
    <<50000, 6>> :> 16257 @@ <<50000, 10>> :> 14208 @@ <<50000, 30>> :> 9451 @@
    <<-5, 0>> :> -96 @@ <<-5, 1>> :> -58 @@ <<-5, 5>> :> -21 @@
    <<-5, 10>> :> -11 @@ <<-5, 30>> :> -3 @@
    <<-100, 0>> :> -2482 @@ <<-100, 1>> :> -1352 @@ <<-100, 5>> :> -442 @@
    <<-100, 10>> :> -226 @@ <<-100, 30>> :> -68 @@
    <<-500, 5>> :> -2874 @@ <<-500, 10>> :> -1270 @@ <<-500, 30>> :> -353

\* The keys where points / (hoursAge + 2)^1.2 + 1 is negative: Math.log10 of
\* a negative number is NaN.
GravityNaN ==
    {<<-500, 0>>, <<-500, 1>>, <<-10000, 0>>, <<-10000, 1>>, <<-10000, 5>>,
     <<-10000, 10>>, <<-10000, 30>>}

\* A bonus given to the posts whose counter fell below the past entry.
VelocityBonus2_OnDecline(post) ==
    LET h == post.metrics_history IN
    IF post.hoursAge < 12 /\ Len(h) > 1
    THEN LET recent == {i \in 1..Len(h) : h[i].hoursAgo <= 3}
             pastEntry == IF recent # {}
                          THEN h[CHOOSE i \in recent : \A j \in recent : i <= j]
                          ELSE h[1]
         IN IF post.stars_numeric /\ pastEntry.score > post.stars THEN 3 ELSE 2
    ELSE 2

\* The velocity bonus in halves: 3 (x1.5) or 2 (x1.0).
VelocityBonus2(post) ==
    LET h == post.metrics_history IN
    IF post.hoursAge < 12 /\ Len(h) > 1
    THEN LET recent == {i \in 1..Len(h) : h[i].hoursAgo <= 3}
             pastEntry == IF recent # {}
                          THEN h[CHOOSE i \in recent : \A j \in recent : i <= j]
                          ELSE h[1]
         IN IF post.stars_numeric
               /\ pastEntry.score < post.stars
               /\ (post.stars - pastEntry.score) * 10 > pastEntry.score
            THEN 3 ELSE 2
    ELSE 2

\* The score is NaN: the logarithm of line 91 got a negative number.
scorePostIsNaN(post) == <<BasePoints100(post), post.hoursAge>> \in GravityNaN

\* A score without the decay by age.
scorePost_NoDecay(post) ==
    GravityLog[<<BasePoints100(post), 0>>]
        * SourceWeight10(post.source) * VelocityBonus2(post)

\* The score in units of 1/2000.
scorePost(post) ==
    GravityLog[<<BasePoints100(post), post.hoursAge>>]
        * SourceWeight10(post.source) * VelocityBonus2(post)

(***************************************************************************)
(* cosineSimilarity (db.ts, utils.ts).  The loop runs over vecA's indexes; *)
(* an index missing in vecB reads undefined and makes the result NaN; a    *)
(* zero norm makes it 0/0 = NaN.  A number is kept as the signed fraction  *)
(* sgn * num / den of the squared cosine, den > 0.                         *)
(***************************************************************************)
NaN == [nan |-> TRUE, sgn |-> 0, num |-> 0, den |-> 1]
Num(sgn, num, den) == [nan |-> FALSE, sgn |-> sgn, num |-> num, den |-> den]
Zero == Num(0, 0, 1)

Sign(x) == IF x > 0 THEN 1 ELSE IF x < 0 THEN -1 ELSE 0

cosineSimilarity(vecA, vecB) ==
    IF Len(vecA) > Len(vecB) THEN NaN
    ELSE LET I == 1..Len(vecA)
             dotProduct == SumOver([i \in I |-> vecA[i] * vecB[i]], I)
             normA == SumOver([i \in I |-> vecA[i] * vecA[i]], I)
             normB == SumOver([i \in I |-> vecB[i] * vecB[i]], I)
         IN IF normA * normB = 0 THEN NaN
            ELSE Num(Sign(dotProduct), dotProduct * dotProduct, normA * normB)

\* x < y and x > y on similarities; every comparison with NaN is false.
SimLess(x, y) ==
    ~x.nan /\ ~y.nan /\ x.sgn * x.num * y.den < y.sgn * y.num * x.den
SimGreater(x, y) == SimLess(y, x)

\* The literal 0.85 = 17/20, squared.
Threshold == Num(1, 289, 400)

\* Math.max(...xs): NaN as soon as one argument is NaN.
RECURSIVE MathMax(_)
MathMax(xs) ==
    IF Len(xs) = 1 THEN xs[1]
    ELSE LET m == MathMax(Tail(xs))
         IN IF xs[1].nan \/ m.nan THEN NaN
            ELSE IF SimLess(xs[1], m) THEN m ELSE xs[1]

(***************************************************************************)
(* normalizeUrl (utils.ts).                                                *)
(***************************************************************************)
\* new URL(url) throws on a string without a scheme.
UrlParses(url) == url.scheme # ""

normalizeUrl(url) ==
    IF ~url.has THEN <<>>
    ELSE IF UrlParses(url)
    THEN LET hostname == LowerAll(url.host)
             pathname == IF url.path = <<>> THEN <<"/">> ELSE url.path
             path == LowerAll(StripLast(StripLast(pathname, "/"), ".git"))
         IN LowerAll(RemoveFirst(hostname, "www.")) \o path
    ELSE LowerAll(StripLast(StripLast(RemoveFirst(url.host \o url.path, "www."),
                                      "/"), ".git"))

(***************************************************************************)
(* posts.query (db.ts): the rows of the store inside the window and the    *)
(* source filter, as the database returns them (stars descending, equal    *)
(* stars in an order the database picks: dbTie), then sorted by scorePost  *)
(* descending with a stable sort.  A row is named by its index in Pool.    *)
(***************************************************************************)
ALL_SOURCES == {"github", "replicate", "huggingface", "reddit", "hackernews"}

WindowHours(filter) ==
    CASE filter = "past_day" -> 24
      [] filter = "past_three_days" -> 72
      [] OTHER -> 168

DbBefore(i, j, dbTie) ==
    \/ Pool[i].stars > Pool[j].stars
    \/ Pool[i].stars = Pool[j].stars /\ (IF dbTie THEN i < j ELSE i > j)

\* The score of every row of the pool.
ScoreOf == [i \in PoolIdx |-> scorePost(Pool[i])]

QueryBefore(i, j, dbTie) ==
    \/ ScoreOf[i] > ScoreOf[j]
    \/ ScoreOf[i] = ScoreOf[j] /\ DbBefore(i, j, dbTie)

RECURSIVE SortRows(_, _)
SortRows(S, dbTie) ==
    IF S = {} THEN <<>>
    ELSE LET first == CHOOSE i \in S : \A j \in S \ {i} : QueryBefore(i, j, dbTie)
         IN <<first>> \o SortRows(S \ {first}, dbTie)

query(rows, filter, sources, dbTie) ==
    SortRows({i \in rows : /\ Pool[i].source \in sources
                           /\ Pool[i].hoursAge < WindowHours(filter)}, dbTie)

(***************************************************************************)
(* posts.queryClustered (db.ts): greedy clustering of the queried list.    *)
(***************************************************************************)
\* The test of lines 443-456 for the main post and another post.
isRelated(post, otherPost) ==
    \/ /\ post.embedding.has
       /\ otherPost.embedding.has
       /\ SimGreater(cosineSimilarity(post.embedding.v, otherPost.embedding.v), Threshold)
    \/ /\ post.url.has
       /\ otherPost.url.has
       /\ normalizeUrl(post.url) = normalizeUrl(otherPost.url)

PostsOf(cluster) == <<cluster.mainPost>> \o cluster.relatedPosts

\* The rows each row of the pool, taken as the main post, is related to.
RelatedTo == [i \in PoolIdx |-> {j \in PoolIdx : isRelated(Pool[i], Pool[j])}]

\* A clustering that forgets to mark a related post as processed.
MarkRelated_Forgets(processedIds, otherPost) == processedIds

\* processedIds after a related post was put into a cluster (line 461).
MarkRelated(processedIds, otherPost) == processedIds \cup {otherPost.id}

\* The inner loop (lines 440-463) from position j on; st = [cluster, processedIds].
\* An inner loop that also tests a post against the related posts taken so far.
RECURSIVE ScanOthers_AgainstMembers(_, _, _)
ScanOthers_AgainstMembers(allPosts, j, st) ==
    IF j > Len(allPosts) THEN st
    ELSE LET other == allPosts[j]
             otherPost == Pool[other]
         IN IF otherPost.id \in st.processedIds
            THEN ScanOthers_AgainstMembers(allPosts, j + 1, st)
            ELSE IF \E member \in Range(PostsOf(st.cluster)) : other \in RelatedTo[member]
            THEN ScanOthers_AgainstMembers(allPosts, j + 1,
                   [cluster |-> [st.cluster EXCEPT
                                   !.relatedPosts = Append(@, other),
                                   !.totalScore = @ + ScoreOf[other]],
                    processedIds |-> MarkRelated(st.processedIds, otherPost)])
            ELSE ScanOthers_AgainstMembers(allPosts, j + 1, st)

RECURSIVE ScanOthers(_, _, _)
ScanOthers(allPosts, j, st) ==
    IF j > Len(allPosts) THEN st
    ELSE LET other == allPosts[j]
             otherPost == Pool[other]
         IN IF otherPost.id \in st.processedIds
            THEN ScanOthers(allPosts, j + 1, st)
            ELSE IF other \in RelatedTo[st.cluster.mainPost]
            THEN ScanOthers(allPosts, j + 1,
                   [cluster |-> [st.cluster EXCEPT
                                   !.relatedPosts = Append(@, other),
                                   !.totalScore = @ + ScoreOf[other]],
                    processedIds |-> MarkRelated(st.processedIds, otherPost)])
            ELSE ScanOthers(allPosts, j + 1, st)

\* The outer loop (lines 426-466) from position i on.
RECURSIVE BuildFrom(_, _, _, _)
BuildFrom(allPosts, i, clusters, processedIds) ==
    IF i > Len(allPosts) THEN clusters
    ELSE LET post == Pool[allPosts[i]]
         IN IF post.id \in processedIds
            THEN BuildFrom(allPosts, i + 1, clusters, processedIds)
            ELSE LET st == ScanOthers(allPosts, 1,
                              [cluster |-> [id |-> post.id,
                                            mainPost |-> allPosts[i],
                                            relatedPosts |-> <<>>,
                                            totalScore |-> 5 * ScoreOf[allPosts[i]]],
                               processedIds |-> processedIds \cup {post.id}])
                 IN BuildFrom(allPosts, i + 1, Append(clusters, st.cluster),
                              st.processedIds)

\* Array.prototype.sort with a comparator on a descending key: a stable
\* insertion of each element after the elements whose key is not smaller.
RECURSIVE InsertDesc(_, _, _)
InsertDesc(sorted, x, key) ==
    IF sorted = <<>> THEN <<x>>
    ELSE IF key[sorted[1]] >= key[x]
    THEN <<sorted[1]>> \o InsertDesc(Tail(sorted), x, key)
    ELSE <<x>> \o sorted

\* key is a function from the elements of s to their sort key.
RECURSIVE SortDesc(_, _)
SortDesc(s, key) ==
    IF s = <<>> THEN <<>>
    ELSE InsertDesc(SortDesc(SubSeq(s, 1, Len(s) - 1), key), s[Len(s)], key)

\* The clusters of a queried list, sorted by totalScore descending.
\* The clusters in the order they were opened.
buildClusters_Unsorted(allPosts) == BuildFrom(allPosts, 1, <<>>, {})

buildClusters(allPosts) ==
    LET clusters == BuildFrom(allPosts, 1, <<>>, {})
    IN SortDesc(clusters, [c \in Range(clusters) |-> c.totalScore])

queryClustered(rows, filter, sources, dbTie) ==
    buildClusters(query(rows, filter, sources, dbTie))

(***************************************************************************)
(* rebuildFeed's post-processing of one cluster (worker.ts, lines 23-114). *)
(***************************************************************************)

FirstWithSource(rowSeq, source) ==
    LET hits == {i \in 1..Len(rowSeq) : Pool[rowSeq[i]].source = source}
    IN IF hits = {} THEN 0 ELSE rowSeq[CHOOSE i \in hits : \A j \in hits : i <= j]

\* bestPost = githubPost || hfPost || mainPost.
BestPost(cluster) ==
    LET githubPost == FirstWithSource(PostsOf(cluster), "github")
        hfPost == FirstWithSource(PostsOf(cluster), "huggingface")
    IN IF githubPost # 0 THEN githubPost
       ELSE IF hfPost # 0 THEN hfPost
       ELSE cluster.mainPost

\* bestLink.includes(...) on a missing url is a TypeError.
ProcessingThrows(cluster) == ~Pool[BestPost(cluster)].url.has

UrlIncludes(url, tok) == tok \in Range(url.host \o url.path)

\* The synergy multiplier in tenths, from the number of distinct sources.
Multiplier10(uniqueSourcesCount) ==
    IF uniqueSourcesCount = 2 THEN 12
    ELSE IF uniqueSourcesCount >= 3 THEN 15
    ELSE 10

\* The same, with the multiplier taken from the tags after the inference.
ProcessCluster_CountsInferred(cluster) ==
    LET sourceTypes == {Pool[p].source : p \in Range(PostsOf(cluster))}
        bestLink == Pool[BestPost(cluster)].url
        inferred ==
            (IF UrlIncludes(bestLink, "github.com") THEN {"github"} ELSE {})
            \cup (IF UrlIncludes(bestLink, "huggingface.co") THEN {"huggingface"} ELSE {})
            \cup (IF UrlIncludes(bestLink, "replicate.com") THEN {"replicate"} ELSE {})
    IN [id |-> cluster.id,
        mainPost |-> cluster.mainPost,
        relatedPosts |-> cluster.relatedPosts,
        totalScore |-> cluster.totalScore,
        boostedScore |-> cluster.totalScore
                           * Multiplier10(Cardinality(sourceTypes \cup inferred)),
        bestLink |-> BestPost(cluster),
        sourcesInCluster |-> sourceTypes \cup inferred]

\* boostedScore is in units of 1/100000.
ProcessCluster(cluster) ==
    LET sourceTypes == {Pool[p].source : p \in Range(PostsOf(cluster))}
        bestLink == Pool[BestPost(cluster)].url
        inferred ==
            (IF UrlIncludes(bestLink, "github.com") THEN {"github"} ELSE {})
            \cup (IF UrlIncludes(bestLink, "huggingface.co") THEN {"huggingface"} ELSE {})
            \cup (IF UrlIncludes(bestLink, "replicate.com") THEN {"replicate"} ELSE {})
    IN [id |-> cluster.id,
        mainPost |-> cluster.mainPost,
        relatedPosts |-> cluster.relatedPosts,
        totalScore |-> cluster.totalScore,
        boostedScore |-> cluster.totalScore * Multiplier10(Cardinality(sourceTypes)),
        bestLink |-> BestPost(cluster),
        sourcesInCluster |-> sourceTypes \cup inferred]

\* The map over the clusters, left in the order queryClustered gave.
ProcessedClusters_Unsorted(clusteredPosts) ==
    [k \in 1..Len(clusteredPosts) |-> ProcessCluster(clusteredPosts[k])]

\* Lines 23-116: the map over the clusters, then the sort by boostedScore.
ProcessedClusters(clusteredPosts) ==
    LET mapped == [k \in 1..Len(clusteredPosts) |-> ProcessCluster(clusteredPosts[k])]
    IN SortDesc(mapped, [c \in Range(mapped) |-> c.boostedScore])

MapThrows(clusteredPosts) ==
    \E k \in 1..Len(clusteredPosts) : ProcessingThrows(clusteredPosts[k])

(***************************************************************************)
(* categorizePost (utils.ts): post.words holds the keywords that occur in  *)
(* the post's name, description and tldr_ru.                               *)
(***************************************************************************)
SystemsWords == {"inference", "cuda", "quantization", "gguf", "rust", "cpp", "engine",
                 "optimization"}
CVWords == {"image", "video", "diffusion", "vision", "segmentation", "detection"}
AudioWords == {"audio", "speech", "voice", "tts", "stt", "music"}
NLPWords == {"llm", "gpt", "text", "language", "rag", "agent", "chat"}

categorizePost(post) ==
    IF post.words \cap SystemsWords # {} THEN "Systems"
    ELSE IF post.words \cap CVWords # {} THEN "CV"
    ELSE IF post.words \cap AudioWords # {} THEN "Audio"
    ELSE IF post.words \cap NLPWords # {} THEN "NLP"
    ELSE "General"

Categories == {"Systems", "CV", "Audio", "NLP", "General"}

(***************************************************************************)
(* The digest history (db.ts, getDigestHistory / addToDigestHistory).  A   *)
(* record holds the embedding it was inserted with and its publication     *)
(* time in hours.                                                          *)
(***************************************************************************)
HistoryRecord(embedding, published_at) ==
    [embedding |-> embedding, published_at |-> published_at]

\* The rows with published_at > now - hours, as {embedding} objects.
getDigestHistory(table, hours, now) ==
    LET hits == {i \in 1..Len(table) : table[i].published_at > now - hours}
        pick[k \in 0..Len(table)] ==
            IF k = 0 THEN <<>>
            ELSE IF k \in hits THEN Append(pick[k - 1], table[k].embedding)
            ELSE pick[k - 1]
    IN pick[Len(table)]

DEDUP_WINDOW_HOURS == 36

(***************************************************************************)
(* createDigest (services/digest.ts).                                      *)
(***************************************************************************)
\* cosineSimilarity(h.embedding, ...) reads h.embedding.length: a TypeError
\* when the history row was stored without an embedding.
SimilarityThrows(history) == \E k \in 1..Len(history) : ~history[k].has

\* maxSimilarity of lines 20-27 for a cluster whose main post has an embedding.
MaxSimilarity(cluster, history) ==
    IF Len(history) > 0
    THEN MathMax([k \in 1..Len(history) |->
                    cosineSimilarity(history[k].v, Pool[cluster.mainPost].embedding.v)])
    ELSE Zero

\* A filter callback that keeps a cluster at the threshold itself.
KeepsCluster_AtThreshold(cluster, history) ==
    IF ~Pool[cluster.mainPost].embedding.has THEN TRUE
    ELSE LET m == MaxSimilarity(cluster, history)
         IN SimLess(m, Threshold) \/ m = Threshold

\* The filter callback of lines 17-30: TRUE keeps the cluster.
KeepsCluster(cluster, history) ==
    IF ~Pool[cluster.mainPost].embedding.has THEN TRUE
    ELSE SimLess(MaxSimilarity(cluster, history), Threshold)

\* The callback throws on the first cluster with an embedding.
DedupThrows(clusters, history) ==
    /\ SimilarityThrows(history)
    /\ \E k \in 1..Len(clusters) : Pool[clusters[k].mainPost].embedding.has

RECURSIVE FilterSeq(_, _)
FilterSeq(s, keep) ==
    IF s = <<>> THEN <<>>
    ELSE IF keep[s[1]] THEN <<s[1]>> \o FilterSeq(Tail(s), keep)
    ELSE FilterSeq(Tail(s), keep)

TemporalDedup(clusters, history) ==
    FilterSeq(clusters, [c \in Range(clusters) |-> KeepsCluster(c, history)])

\* A cap test that is off by one.
UnderCategoryCap_Inclusive(count) == count <= MAX_PER_CATEGORY

\* The test of line 44.
UnderCategoryCap(count) == count < MAX_PER_CATEGORY

\* A loop that ends at the first cluster of a full category.
RECURSIVE DiversityFrom_StopsAtCap(_, _, _, _)
DiversityFrom_StopsAtCap(uniqueClusters, k, topClusters, categoryCounts) ==
    IF k > Len(uniqueClusters) \/ Len(topClusters) >= MAX_DIGEST_CLUSTERS
    THEN topClusters
    ELSE LET cluster == uniqueClusters[k]
             category == categorizePost(Pool[cluster.mainPost])
             count == categoryCounts[category]
         IN IF UnderCategoryCap(count)
            THEN DiversityFrom_StopsAtCap(uniqueClusters, k + 1,
                                          Append(topClusters, cluster),
                                          [categoryCounts EXCEPT ![category] = count + 1])
            ELSE topClusters

\* The loop of lines 38-48 from position k on.
RECURSIVE DiversityFrom(_, _, _, _)
DiversityFrom(uniqueClusters, k, topClusters, categoryCounts) ==
    IF k > Len(uniqueClusters) \/ Len(topClusters) >= MAX_DIGEST_CLUSTERS
    THEN topClusters
    ELSE LET cluster == uniqueClusters[k]
             category == categorizePost(Pool[cluster.mainPost])
             count == categoryCounts[category]
         IN IF UnderCategoryCap(count)
            THEN DiversityFrom(uniqueClusters, k + 1, Append(topClusters, cluster),
                               [categoryCounts EXCEPT ![category] = count + 1])
            ELSE DiversityFrom(uniqueClusters, k + 1, topClusters, categoryCounts)

DiversityFilter(uniqueClusters) ==
    DiversityFrom(uniqueClusters, 1, <<>>, [c \in Categories |-> 0])

\* A check of line 50 that never fires.
NoEligibleClusters_Never(topClusters) == FALSE

\* Line 50: no cluster was selected.
NoEligibleClusters(topClusters) == Len(topClusters) = 0

(***************************************************************************)
(* State.                                                                  *)
(***************************************************************************)
VARIABLES
    store,             \* the rows of the item store (indexes into Pool)
    dbTie,             \* the order the database gives rows of equal stars
    clock,             \* Date.now(), in hours
    digestHistory,     \* the digest_history table, in insertion order
    clusterRun,        \* the last queryClustered call of SpecCluster
    curateRun,         \* the last createDigest call of SpecCurate
    scoreRun,          \* the last pair of scorePost calls of SpecScore
    relatedRun,        \* the last pair of relatedness tests of SpecRelated
    ingestRun,         \* the updateContent cycles of SpecIngest and their table
    workerStarted,     \* startWorker has run
    runs,              \* the rebuildFeed invocations
    ingests,           \* the updateContent chains in flight
    cache,             \* FeedCache.cache: 0 (null) or a reference into feedObjects
    feedObjects,       \* the CachedFeed objects allocated so far
    lastRead,          \* what the last GET / did
    digs,              \* the digest requests
    lastDigestState,   \* app_config.last_digest_state
    lastDigestResult,  \* index.ts lastDigestResult
    sink,              \* the messages delivered by sendTelegramMessage
    llmCalls           \* the cluster lists generateDigest was called with

storeVars == <<store, dbTie, clock, digestHistory>>
pureVars == <<clusterRun, curateRun, scoreRun, relatedRun, ingestRun>>
feedVars == <<workerStarted, runs, ingests, cache, feedObjects, lastRead>>
digestVars == <<digs, lastDigestState, lastDigestResult, sink, llmCalls>>
vars == <<storeVars, pureVars, feedVars, digestVars>>

NoClusterRun ==
    [called |-> FALSE, allPosts |-> <<>>, clusters |-> <<>>,
     rebuilt |-> FALSE, threw |-> FALSE, processed |-> <<>>]
NoCurateRun ==
    [called |-> FALSE, force |-> FALSE, historyFailed |-> FALSE, outcome |-> "none",
     history |-> <<>>, clusters |-> <<>>, uniqueClusters |-> <<>>, topClusters |-> <<>>]

NoRun == [st |-> "new", trigger |-> "none", failed |-> FALSE, rows |-> {}, before |-> 0,
          promise |-> "pending"]
NoRead == [kind |-> "none", ref |-> 0, seen |-> <<>>, page |-> <<>>, started |-> 0]
NoDig == [kind |-> "none", pc |-> "new", force |-> FALSE, at |-> 0,
          clusters |-> <<>>, filtered |-> FALSE, topClusters |-> <<>>,
          effects |-> {}, result |-> "none", historyFailed |-> FALSE]
NoIngests == [t \in {"ingest", "manual"} |-> 0]

NoScoreRun ==
    [called |-> FALSE, a |-> <<>>, b |-> <<>>, scoreA |-> 0, scoreB |-> 0,
     nanA |-> FALSE, nanB |-> FALSE]
NoRelatedRun ==
    [called |-> FALSE, a |-> 0, b |-> 0, ab |-> FALSE, ba |-> FALSE,
     identityA |-> <<>>, identityB |-> <<>>, clusters |-> <<>>]

FetchIds == {"p1", "p2"}
NoRow == [present |-> FALSE, stars |-> 0, metrics_history |-> <<>>]
NoIngestRun ==
    [cycle |-> 0, table |-> [id \in FetchIds |-> NoRow],
     fetches |-> [id \in FetchIds |-> 0], fetched |-> [id \in FetchIds |-> 0]]

PureIdle ==
    /\ clusterRun = NoClusterRun
    /\ curateRun = NoCurateRun
    /\ ingestRun = NoIngestRun
    /\ scoreRun = NoScoreRun
    /\ relatedRun = NoRelatedRun
FeedIdle ==
    /\ workerStarted = FALSE
    /\ runs = [r \in 1..MaxRuns |-> NoRun]
    /\ ingests = NoIngests
    /\ cache = 0
    /\ feedObjects = <<>>
    /\ lastRead = NoRead
DigestIdle ==
    /\ digs = [d \in 1..MaxDigests |-> NoDig]
    /\ lastDigestState = <<>>
    /\ lastDigestResult = <<>>
    /\ sink = <<>>
    /\ llmCalls = <<>>

(***************************************************************************)
(* SpecCluster: queryClustered as a function of the store.                 *)
(***************************************************************************)
InitCluster ==
    /\ store \in {S \in SUBSET PoolIdx : Cardinality(S) <= MaxPosts}
    /\ dbTie \in BOOLEAN
    /\ clock = 0
    /\ digestHistory = <<>>
    /\ PureIdle /\ FeedIdle /\ DigestIdle

RunQueryClustered ==
    /\ ~clusterRun.called
    /\ \E filter \in {"past_day", "past_week"} :
         LET allPosts == query(store, filter, ALL_SOURCES, dbTie)
         IN clusterRun' = [clusterRun EXCEPT !.called = TRUE, !.allPosts = allPosts,
                                             !.clusters = buildClusters(allPosts)]
    /\ UNCHANGED <<storeVars, curateRun, scoreRun, relatedRun, ingestRun, feedVars, digestVars>>

\* rebuildFeed's processing of the clusters it was given (worker.ts, 23-118).
RunProcessClusters ==
    /\ clusterRun.called
    /\ ~clusterRun.rebuilt
    /\ \E threw \in {MapThrows(clusterRun.clusters)} :
         clusterRun' = [clusterRun EXCEPT
                          !.rebuilt = TRUE,
                          !.threw = threw,
                          !.processed = IF threw THEN <<>>
                                        ELSE ProcessedClusters(clusterRun.clusters)]
    /\ UNCHANGED <<storeVars, curateRun, scoreRun, relatedRun, ingestRun, feedVars, digestVars>>

NextCluster == RunQueryClustered \/ RunProcessClusters

SpecCluster == InitCluster /\ [][NextCluster]_vars

\* Every place of a cluster list, main first, in cluster order.
RECURSIVE Placed(_)
Placed(clusters) ==
    IF clusters = <<>> THEN <<>>
    ELSE PostsOf(clusters[1]) \o Placed(Tail(clusters))

NoRepeat(s) == \A i, j \in 1..Len(s) : i # j => s[i] # s[j]

\* C1: the clusters of one queryClustered run hold no post in two places:
\* no row is main or related in two clusters, or twice in one cluster.
C1_NoPostInTwoPlaces ==
    clusterRun.called => NoRepeat(Placed(clusterRun.clusters))

\* A run that built at least two clusters, one of them with a related post.
C1_Witness ==
    /\ clusterRun.called
    /\ Len(clusterRun.clusters) >= 2
    /\ \E k \in 1..Len(clusterRun.clusters) :
         Len(clusterRun.clusters[k].relatedPosts) >= 1

\* The source tags of the items of a processed cluster.
ItemSources(c) == {Pool[p].source : p \in Range(PostsOf(c))}

\* The multiplier the claim gives, in tenths: 1.0, 1.2, 1.5.
ClaimedMultiplier10(n) == CASE n = 1 -> 10 [] n = 2 -> 12 [] n >= 3 -> 15

\* C13: every processed cluster has boostedScore = totalScore * m, with m
\* 1.0, 1.2 or 1.5 for one, two, or three and more distinct source tags among
\* the cluster's items; the tags inferred from the best link's domain are in
\* the displayed set and do not change m.
C13_SynergyMultiplier ==
    \A k \in 1..Len(clusterRun.processed) :
        LET c == clusterRun.processed[k]
        IN /\ c.boostedScore
                = c.totalScore * ClaimedMultiplier10(Cardinality(ItemSources(c)))
           /\ ItemSources(c) \subseteq c.sourcesInCluster
           /\ c.sourcesInCluster \ ItemSources(c) =
                {d[1] : d \in {e \in {<<"github", "github.com">>,
                                      <<"huggingface", "huggingface.co">>,
                                      <<"replicate", "replicate.com">>} :
                                 /\ UrlIncludes(Pool[c.bestLink].url, e[2])
                                 /\ e[1] \notin ItemSources(c)}}

\* A processed feed with a one-source cluster that shows an inferred tag and
\* a cluster of three sources.
C13_Witness ==
    /\ clusterRun.rebuilt /\ ~clusterRun.threw
    /\ \E k \in 1..Len(clusterRun.processed) :
         /\ Cardinality(ItemSources(clusterRun.processed[k])) = 1
         /\ clusterRun.processed[k].sourcesInCluster
              # ItemSources(clusterRun.processed[k])
         /\ clusterRun.processed[k].totalScore > 0
    /\ \E k \in 1..Len(clusterRun.processed) :
         Cardinality(ItemSources(clusterRun.processed[k])) >= 3

\* The position of a row in the list queryClustered iterated.
PositionIn(allPosts, row) == CHOOSE i \in 1..Len(allPosts) : allPosts[i] = row

\* C19: the clustering is first-fit over the input sorted by score: a related
\* post passes the relatedness test against the main of its cluster and
\* against the main of no cluster opened earlier, and a main passes the test
\* against the main of no cluster opened earlier; the test is only made
\* against mains.
C19_FirstFit ==
    clusterRun.called =>
        LET allPosts == clusterRun.allPosts
            clusters == clusterRun.clusters
            OpenedBefore(k, l) == PositionIn(allPosts, clusters[k].mainPost)
                                    < PositionIn(allPosts, clusters[l].mainPost)
        IN /\ \A i \in 1..(Len(allPosts) - 1) :
                 ScoreOf[allPosts[i]] >= ScoreOf[allPosts[i + 1]]
           /\ \A l \in 1..Len(clusters) :
                 /\ \A r \in Range(clusters[l].relatedPosts) :
                       /\ isRelated(Pool[clusters[l].mainPost], Pool[r])
                       /\ \A k \in 1..Len(clusters) :
                             OpenedBefore(k, l)
                                => ~isRelated(Pool[clusters[k].mainPost], Pool[r])
                 /\ \A k \in 1..Len(clusters) :
                       OpenedBefore(k, l)
                          => ~isRelated(Pool[clusters[k].mainPost],
                                        Pool[clusters[l].mainPost])

\* A run where the main of a later cluster is related to a related post of
\* an earlier cluster and stays out of it.
C19_Witness ==
    /\ clusterRun.called
    /\ \E k, l \in 1..Len(clusterRun.clusters) :
         /\ PositionIn(clusterRun.allPosts, clusterRun.clusters[k].mainPost)
              < PositionIn(clusterRun.allPosts, clusterRun.clusters[l].mainPost)
         /\ \E r \in Range(clusterRun.clusters[k].relatedPosts) :
               isRelated(Pool[r], Pool[clusterRun.clusters[l].mainPost])

\* Five times scorePost of the main post plus scorePost of every related post
\* (the main post counts 1, a related post 0.2).
TotalScoreOf(cluster) ==
    5 * ScoreOf[cluster.mainPost]
      + SumOver([k \in 1..Len(cluster.relatedPosts) |-> ScoreOf[cluster.relatedPosts[k]]],
                1..Len(cluster.relatedPosts))

\* C23: the list queryClustered returns is in construction order: ordered by
\* the score of each cluster's main post, non-increasing, also when related
\* posts add to a cluster's total score.
C23_OrderedByMainScore ==
    clusterRun.called =>
        \A k \in 1..(Len(clusterRun.clusters) - 1) :
            ScoreOf[clusterRun.clusters[k].mainPost]
                >= ScoreOf[clusterRun.clusters[k + 1].mainPost]

\* C23, amended: the list queryClustered returns is ordered by the total
\* score of the clusters, non-increasing: the score of the main post plus 0.2
\* times the score of every related post.
C23_OrderedByTotalScore ==
    clusterRun.called =>
        /\ \A k \in 1..Len(clusterRun.clusters) :
              clusterRun.clusters[k].totalScore = TotalScoreOf(clusterRun.clusters[k])
        /\ \A k \in 1..(Len(clusterRun.clusters) - 1) :
              clusterRun.clusters[k].totalScore
                  >= clusterRun.clusters[k + 1].totalScore

\* A run where the related posts lift a cluster above a cluster whose main
\* post scores higher.
C23_Witness ==
    /\ clusterRun.called
    /\ \E k \in 1..(Len(clusterRun.clusters) - 1) :
         /\ clusterRun.clusters[k].totalScore > clusterRun.clusters[k + 1].totalScore
         /\ ScoreOf[clusterRun.clusters[k].mainPost]
              < ScoreOf[clusterRun.clusters[k + 1].mainPost]
         /\ clusterRun.clusters[k].relatedPosts # <<>>

\* C24: the clustering loses no post: every row the item query returned,
\* a row being named by its (id, source) key, is in exactly one place of the
\* returned clusters, also when two rows of different sources have one id.
C24_NoPostLost ==
    clusterRun.called =>
        \A row \in Range(clusterRun.allPosts) :
            Cardinality({i \in 1..Len(Placed(clusterRun.clusters)) :
                           Placed(clusterRun.clusters)[i] = row}) = 1

(***************************************************************************)
(* SpecScore: scorePost as a function of the post, called at one instant   *)
(* on two posts that differ in stars and in age only.                      *)
(***************************************************************************)
ScoreStars == {0, 9, 14, 20, 50, 200, 900, 2000, 5000}
ScoreAges == {0, 1, 5, 10, 30}
ScoreHistories ==
    {<<>>, <<Snap(5, 10), Snap(1, 15)>>, <<Snap(6, 0), Snap(4, 30)>>}

ScorePost(source, stars, hoursAge, history) ==
    Post("p", source, stars, 0, hoursAge, NoEmbedding, NoUrl, {}, history)

InitScore ==
    /\ store = {}
    /\ dbTie = TRUE
    /\ clock = 0
    /\ digestHistory = <<>>
    /\ clusterRun = NoClusterRun
    /\ curateRun = NoCurateRun
    /\ ingestRun = NoIngestRun
    /\ relatedRun = NoRelatedRun
    /\ \E source \in ALL_SOURCES, history \in ScoreHistories,
          starsA \in ScoreStars, starsB \in ScoreStars,
          ageA \in ScoreAges, ageB \in ScoreAges :
         /\ starsA = starsB \/ ageA = ageB
         /\ scoreRun = [NoScoreRun EXCEPT
                          !.a = ScorePost(source, starsA, ageA, history),
                          !.b = ScorePost(source, starsB, ageB, history)]
         /\ <<BasePoints100(scoreRun.a), ageA>> \in DOMAIN GravityLog
         /\ <<BasePoints100(scoreRun.b), ageB>> \in DOMAIN GravityLog
    /\ FeedIdle /\ DigestIdle

RunScorePost ==
    /\ ~scoreRun.called
    /\ scoreRun' = [scoreRun EXCEPT
                       !.called = TRUE,
                       !.nanA = scorePostIsNaN(scoreRun.a),
                       !.nanB = scorePostIsNaN(scoreRun.b),
                       !.scoreA = IF scorePostIsNaN(scoreRun.a) THEN 0
                                  ELSE scorePost(scoreRun.a),
                       !.scoreB = IF scorePostIsNaN(scoreRun.b) THEN 0
                                  ELSE scorePost(scoreRun.b)]
    /\ UNCHANGED <<storeVars, clusterRun, curateRun, relatedRun, ingestRun, feedVars, digestVars>>

NextScore == RunScorePost

SpecScore == InitScore /\ [][NextScore]_vars

MalformedStars == {0, -5, -100}

\* A post whose stars is a value Number() turns into NaN.
NonNumericStars(post) == [post EXCEPT !.stars = 0, !.stars_numeric = FALSE]

InitMalformed ==
    /\ store = {}
    /\ dbTie = TRUE
    /\ clock = 0
    /\ digestHistory = <<>>
    /\ clusterRun = NoClusterRun
    /\ curateRun = NoCurateRun
    /\ ingestRun = NoIngestRun
    /\ relatedRun = NoRelatedRun
    /\ \E source \in ALL_SOURCES, history \in ScoreHistories, age \in ScoreAges,
          numeric \in BOOLEAN, stars \in MalformedStars :
         /\ ~numeric => stars = 0
         /\ scoreRun = [NoScoreRun EXCEPT
                          !.a = IF numeric THEN ScorePost(source, stars, age, history)
                                ELSE NonNumericStars(ScorePost(source, 0, age, history)),
                          !.b = ScorePost(source, 0, age, history)]
    /\ FeedIdle /\ DigestIdle

SpecMalformed == InitMalformed /\ [][NextScore]_vars

\* C21: scorePost yields no NaN for a malformed popularity: a counter that is
\* zero, negative or not a number is clamped to base points 0, so the post
\* scores what the same post with popularity 0 scores.
C21_MalformedClamped ==
    scoreRun.called =>
        /\ ~scoreRun.nanA
        /\ scoreRun.scoreA = scoreRun.scoreB

(***************************************************************************)
(* SpecRelated: the relatedness test of queryClustered, normalizeUrl and   *)
(* the clustering, on a list of two rows of the pool.                      *)
(***************************************************************************)
InitRelated ==
    /\ store = {}
    /\ dbTie \in BOOLEAN
    /\ clock = 0
    /\ digestHistory = <<>>
    /\ clusterRun = NoClusterRun
    /\ curateRun = NoCurateRun
    /\ ingestRun = NoIngestRun
    /\ scoreRun = NoScoreRun
    /\ \E a \in PoolIdx, b \in PoolIdx :
         /\ a # b
         /\ relatedRun = [NoRelatedRun EXCEPT !.a = a, !.b = b]
    /\ FeedIdle /\ DigestIdle

RunIsRelated ==
    /\ ~relatedRun.called
    /\ relatedRun' =
         [relatedRun EXCEPT
            !.called = TRUE,
            !.ab = isRelated(Pool[relatedRun.a], Pool[relatedRun.b]),
            !.ba = isRelated(Pool[relatedRun.b], Pool[relatedRun.a]),
            !.identityA = normalizeUrl(Pool[relatedRun.a].url),
            !.identityB = normalizeUrl(Pool[relatedRun.b].url),
            !.clusters = buildClusters(SortRows({relatedRun.a, relatedRun.b}, dbTie))]
    /\ UNCHANGED <<storeVars, clusterRun, curateRun, scoreRun, ingestRun, feedVars, digestVars>>

NextRelated == RunIsRelated

SpecRelated == InitRelated /\ [][NextRelated]_vars

\* C14: the relatedness test of the clustering gives the same answer for
\* (a, b) as for (b, a), for every pair of posts: with or without
\* embeddings, with embeddings of different lengths, with any URLs.
C14_RelatedSymmetric ==
    relatedRun.called => relatedRun.ab = relatedRun.ba

\* What two URLs share when they differ only in the letter case of the host,
\* in a leading 'www.' on the host, in one trailing slash or in a trailing
\* '.git' on the path.
UrlUpToVariants(url) ==
    LET host == LowerAll(url.host)
    IN <<url.scheme,
         IF Len(host) > 0 /\ host[1] = "www." THEN Tail(host) ELSE host,
         StripLast(StripLast(url.path, "/"), ".git")>>

InOneCluster(clusters, a, b) ==
    \E k \in 1..Len(clusters) : {a, b} \subseteq Range(PostsOf(clusters[k]))

\* C17: two URLs that differ only in the letter case of the host, a leading
\* 'www.', one trailing slash or a trailing '.git' normalize to the same
\* identity, and two posts with such URLs are put in the same cluster, with
\* or without embeddings.
C17_UrlVariantsClustered ==
    (/\ relatedRun.called
     /\ Pool[relatedRun.a].url.has /\ Pool[relatedRun.b].url.has
     /\ UrlUpToVariants(Pool[relatedRun.a].url) = UrlUpToVariants(Pool[relatedRun.b].url))
        => /\ relatedRun.identityA = relatedRun.identityB
           /\ InOneCluster(relatedRun.clusters, relatedRun.a, relatedRun.b)

(***************************************************************************)
(* SpecCurate: createDigest as a function of the store, the digest history,*)
(* force, and whether the history query fails (getDigestHistory then logs  *)
(* the error and returns []).                                              *)
(***************************************************************************)
\* What createDigest does: outcome "null" (no eligible clusters), "digest",
\* or "throw"; with the lists it computed on the way.
CurateResult(history, clusters, threw, uniqueClusters, topClusters) ==
    [outcome |-> IF threw THEN "throw"
                 ELSE IF NoEligibleClusters(topClusters) THEN "null"
                 ELSE "digest",
     history |-> history,
     clusters |-> clusters,
     uniqueClusters |-> uniqueClusters,
     topClusters |-> topClusters]

\* Lines 33-52: the diversity filter.
CurateSelect(history, clusters, threw, uniqueClusters) ==
    CurateResult(history, clusters, threw, uniqueClusters,
                 IF threw THEN <<>> ELSE DiversityFilter(uniqueClusters))

\* Lines 12-31: the temporal de-duplication, skipped with force.
CurateDedup(history, clusters, force, threw) ==
    CurateSelect(history, clusters, threw,
                 IF force THEN clusters
                 ELSE IF threw THEN <<>>
                 ELSE TemporalDedup(clusters, history))

CurateFrom(history, clusters, force) ==
    CurateDedup(history, clusters, force, ~force /\ DedupThrows(clusters, history))

createDigest(rows, table, now, tie, force, historyFails) ==
    CurateFrom(IF historyFails THEN <<>>
               ELSE getDigestHistory(table, DEDUP_WINDOW_HOURS, now),
               queryClustered(rows, "past_day", ALL_SOURCES, tie),
               force)

\* The time of SpecCurate, and the records its history is drawn from: the
\* third and the fourth were stored without a norm and without an embedding,
\* the fifth is older than the window.
CurateNow == DEDUP_WINDOW_HOURS + 4
HistoryPool ==
    <<HistoryRecord(Emb(<<1, 0>>), CurateNow - 1),
      HistoryRecord(Emb(<<0, 1, 0, 0, 0>>), CurateNow - 2),
      HistoryRecord(Emb(<<0, 0>>), CurateNow - 3),
      HistoryRecord(NoEmbedding, CurateNow - 1),
      HistoryRecord(Emb(<<0, 1>>), CurateNow - DEDUP_WINDOW_HOURS),
      HistoryRecord(Emb(<<-1, -1>>), CurateNow - 5)>>

RECURSIVE Pick(_, _)
Pick(pool, S) ==
    IF S = {} THEN <<>>
    ELSE LET i == CHOOSE x \in S : \A y \in S : x <= y
         IN <<pool[i]>> \o Pick(pool, S \ {i})

\* ---------------------------------------------------------------------
\* The ingestion cycle on its own: updateContent over a table of two ids.
\* A fetch result is the set of ids the fetchers returned and the star
\* count each one carries; Date.now() is the number of the cycle.
\* ---------------------------------------------------------------------
MaxCycles == 3
HISTORY_LIMIT == 100
FetchStars == {10, 20}

SliceLast(seq, n) ==
    IF Len(seq) <= n THEN seq ELSE SubSeq(seq, Len(seq) - n + 1, Len(seq))

getExistingIds(table, ids) == {id \in ids : table[id].present}

upsertMany(table, ids, stars, now) ==
    [id \in FetchIds |->
        IF id \in ids
        THEN [present |-> TRUE,
              stars |-> stars[id],
              metrics_history |->
                  SliceLast(Append(table[id].metrics_history,
                                   [ts |-> now, score |-> stars[id]]),
                            HISTORY_LIMIT)]
        ELSE table[id]]

updateContent(table, ids, stars, now, upsertOk) ==
    LET existingIds == getExistingIds(table, ids)
        newPosts == ids \ existingIds
    IN IF newPosts # {} /\ upsertOk
       THEN upsertMany(table, newPosts, stars, now)
       ELSE table

InitIngest ==
    /\ store = {}
    /\ dbTie = TRUE
    /\ clock = 0
    /\ digestHistory = <<>>
    /\ PureIdle /\ FeedIdle /\ DigestIdle

RunUpdateContent ==
    /\ ingestRun.cycle < MaxCycles
    /\ \E ids \in SUBSET FetchIds, stars \in [FetchIds -> FetchStars], upsertOk \in BOOLEAN :
         ingestRun' =
             [cycle |-> ingestRun.cycle + 1,
              table |-> updateContent(ingestRun.table, ids, stars,
                                      ingestRun.cycle + 1, upsertOk),
              fetches |-> [id \in FetchIds |->
                             IF id \in ids /\ upsertOk
                             THEN ingestRun.fetches[id] + 1
                             ELSE ingestRun.fetches[id]],
              fetched |-> [id \in FetchIds |->
                             IF id \in ids /\ upsertOk
                             THEN stars[id]
                             ELSE ingestRun.fetched[id]]]
    /\ UNCHANGED <<storeVars, clusterRun, curateRun, scoreRun, relatedRun,
                   feedVars, digestVars>>

NextIngest == RunUpdateContent

SpecIngest == InitIngest /\ [][NextIngest]_vars

\* C29: an ingestion cycle that fetches a post already in the store refreshes
\* its stored popularity and appends one snapshot to its metrics history, so
\* a post fetched in k cycles holds min(k, 100) snapshots and its stored
\* popularity is the one of the last fetch.
C29_SnapshotPerCycle ==
    \A id \in FetchIds :
        ingestRun.table[id].present =>
            /\ Len(ingestRun.table[id].metrics_history)
                  = (IF ingestRun.fetches[id] < HISTORY_LIMIT
                     THEN ingestRun.fetches[id] ELSE HISTORY_LIMIT)
            /\ ingestRun.table[id].stars = ingestRun.fetched[id]

InitCurate ==
    /\ \E M \in SUBSET PoolIdx : Cardinality(M) <= MaxMissing /\ store = PoolIdx \ M
    /\ dbTie \in BOOLEAN
    /\ clock = CurateNow
    /\ \E H \in SUBSET (1..Len(HistoryPool)) :
          Cardinality(H) <= MaxHistory /\ digestHistory = Pick(HistoryPool, H)
    /\ PureIdle /\ FeedIdle /\ DigestIdle

RunCreateDigest ==
    /\ ~curateRun.called
    /\ \E force \in BOOLEAN, historyFails \in BOOLEAN :
         \E r \in {createDigest(store, digestHistory, clock, dbTie, force, historyFails)} :
            curateRun' = [called |-> TRUE, force |-> force,
                          historyFailed |-> historyFails /\ ~force,
                          outcome |-> r.outcome, history |-> r.history,
                          clusters |-> r.clusters,
                          uniqueClusters |-> r.uniqueClusters,
                          topClusters |-> r.topClusters]
    /\ UNCHANGED <<storeVars, clusterRun, scoreRun, relatedRun, ingestRun, feedVars, digestVars>>

NextCurate == RunCreateDigest

SpecCurate == InitCurate /\ [][NextCurate]_vars

\* The number of selected clusters of a category.
SelectedOf(topClusters, category) ==
    Cardinality({k \in 1..Len(topClusters) :
                   categorizePost(Pool[topClusters[k].mainPost]) = category})

\* C7: whatever the candidates and force, createDigest selects at most
\* MAX_PER_CATEGORY clusters of one category and at most 8 clusters.
C7_DiversityCaps ==
    curateRun.called =>
        /\ Len(curateRun.topClusters) <= MAX_DIGEST_CLUSTERS
        /\ \A category \in Categories :
             SelectedOf(curateRun.topClusters, category) <= MAX_PER_CATEGORY

\* A run with more than 8 surviving candidates, four of them of one category.
C7_Witness ==
    /\ curateRun.called
    /\ Len(curateRun.uniqueClusters) > MAX_DIGEST_CLUSTERS
    /\ Len(curateRun.topClusters) = MAX_DIGEST_CLUSTERS
    /\ \E category \in Categories :
         /\ SelectedOf(curateRun.uniqueClusters, category) > MAX_PER_CATEGORY
         /\ SelectedOf(curateRun.topClusters, category) = MAX_PER_CATEGORY

\* The records of the table inside the trailing window.
RecentRecords(table, now) ==
    {k \in 1..Len(table) : table[k].published_at > now - DEDUP_WINDOW_HOURS}

\* The cluster's main embedding is more than 0.85 similar to a stored record
\* of the trailing 36 hours.
SimilarToHistory(cluster, table, now) ==
    /\ Pool[cluster.mainPost].embedding.has
    /\ \E k \in RecentRecords(table, now) :
         /\ table[k].embedding.has
         /\ SimGreater(cosineSimilarity(table[k].embedding.v,
                                        Pool[cluster.mainPost].embedding.v),
                       Threshold)

\* C8: with force = FALSE no selected cluster is more than 0.85 similar to a
\* history record of the trailing 36 hours; with force = TRUE such a
\* candidate stays a candidate of the diversity filter.
C8_SimilarCandidateExcluded ==
    curateRun.called =>
        \A k \in 1..Len(curateRun.clusters) :
            SimilarToHistory(curateRun.clusters[k], digestHistory, clock) =>
                IF curateRun.force
                THEN curateRun.clusters[k] \in Range(curateRun.uniqueClusters)
                ELSE curateRun.clusters[k] \notin Range(curateRun.topClusters)

\* The same, for the runs whose history query did not fail.
C8_WhenHistoryIsRead ==
    ~curateRun.historyFailed => C8_SimilarCandidateExcluded

\* The similarities of a cluster to the history the run read are all numbers.
NumericSimilarities(cluster, history) ==
    \A k \in 1..Len(history) :
        /\ history[k].has
        /\ ~cosineSimilarity(history[k].v, Pool[cluster.mainPost].embedding.v).nan

Dropped(cluster) == cluster \notin Range(curateRun.uniqueClusters)

SelectedBefore(k) ==
    {j \in 1..(k - 1) : curateRun.uniqueClusters[j] \in Range(curateRun.topClusters)}
CategoryOf(cluster) == categorizePost(Pool[cluster.mainPost])

\* C22: the selection is the greedy walk over the survivors in the order
\* queryClustered returned them: a survivor is selected iff fewer than 8
\* were selected before it and fewer than 3 of its category were selected
\* before it; the selection is a subsequence of the candidates, of
\* non-increasing score; with fewer than 8 selected, every unselected
\* survivor is of a category that holds 3 selected clusters.
C22_GreedySelection ==
    (curateRun.called /\ curateRun.outcome # "throw") =>
        LET u == curateRun.uniqueClusters
            top == curateRun.topClusters
        IN /\ \A k \in 1..Len(u) :
                 u[k] \in Range(top)
                   <=> /\ Cardinality(SelectedBefore(k)) < MAX_DIGEST_CLUSTERS
                       /\ Cardinality({j \in SelectedBefore(k) :
                                          CategoryOf(u[j]) = CategoryOf(u[k])})
                            < MAX_PER_CATEGORY
           /\ \A i \in 1..Len(top) :
                 /\ top[i] \in Range(curateRun.clusters)
                 /\ \A j \in (i + 1)..Len(top) :
                       /\ top[i].totalScore >= top[j].totalScore
                       /\ \E a, b \in 1..Len(curateRun.clusters) :
                             /\ a < b
                             /\ curateRun.clusters[a] = top[i]
                             /\ curateRun.clusters[b] = top[j]
           /\ Len(top) < MAX_DIGEST_CLUSTERS =>
                 \A k \in 1..Len(u) :
                     u[k] \notin Range(top)
                        => SelectedOf(top, CategoryOf(u[k])) = MAX_PER_CATEGORY

\* A digest of fewer than 8 clusters where the walk passed over a survivor of
\* a full category and selected a later one.
C22_Witness ==
    /\ curateRun.called /\ curateRun.outcome = "digest"
    /\ Len(curateRun.topClusters) < MAX_DIGEST_CLUSTERS
    /\ \E j, k \in 1..Len(curateRun.uniqueClusters) :
         /\ j < k
         /\ curateRun.uniqueClusters[j] \notin Range(curateRun.topClusters)
         /\ curateRun.uniqueClusters[k] \in Range(curateRun.topClusters)

IsZeroVector(v) == \A i \in 1..Len(v) : v[i] = 0

\* C20: a pair of embeddings with a zero vector is treated as not similar
\* wherever it is used: no post joins a cluster on the embedding path with a
\* zero vector on either side, and the temporal de-duplication drops a
\* candidate only for a history entry that is similar to it, zero vectors on
\* either side never being a cause.
C20_ZeroVectorNotSimilar ==
    (curateRun.called /\ ~curateRun.force /\ curateRun.outcome # "throw") =>
        \A k \in 1..Len(curateRun.clusters) :
            LET c == curateRun.clusters[k]
                e == Pool[c.mainPost].embedding
            IN /\ \A r \in Range(c.relatedPosts) :
                     (e.has /\ Pool[r].embedding.has
                        /\ (IsZeroVector(e.v) \/ IsZeroVector(Pool[r].embedding.v)))
                       => normalizeUrl(Pool[c.mainPost].url) = normalizeUrl(Pool[r].url)
               /\ Dropped(c) =>
                     \E h \in 1..Len(curateRun.history) :
                        /\ ~IsZeroVector(curateRun.history[h].v)
                        /\ ~IsZeroVector(e.v)
                        /\ ~SimLess(cosineSimilarity(curateRun.history[h].v, e.v),
                                    Threshold)

(***************************************************************************)
(* Spec: the running program.  startWorker, its timers, GET /, POST        *)
(* /api/update and the digest callers share one event loop: an action is   *)
(* the code that runs between two awaits.                                  *)
(***************************************************************************)
\* The stores the program may be started with, and what one updateContent
\* may insert.  Row 8 has no url.
InitialStores == {{3}, {1, 2, 3}}
IngestBatches == {{}, {5}, {8}, {14, 17}}
InitialHistories == {<<>>, <<HistoryRecord(Emb(<<1, 0>>), -1)>>}

FreeRuns == {r \in 1..MaxRuns : runs[r].st = "new"}
InProgress == {r \in 1..MaxRuns : runs[r].st \in {"querying", "fetched"}}
PendingChains == ingests["ingest"] + ingests["manual"]

\* rebuildFeed() up to its await (worker.ts, lines 17-21).
CallRebuildFeed(rs, trigger) ==
    LET r == CHOOSE x \in 1..MaxRuns :
                 /\ rs[x].st = "new"
                 /\ \A y \in 1..MaxRuns : rs[y].st = "new" => x <= y
    IN [rs EXCEPT ![r] = [NoRun EXCEPT !.st = "querying", !.trigger = trigger]]

\* FeedCache.set: a new CachedFeed object replaces the reference.
FeedCacheSet_InPlace(objects, ref, clusters, now, run) ==
    IF ref = 0
    THEN [objects |-> Append(objects, [clusters |-> clusters, lastUpdated |-> now,
                                       run |-> run]),
          cache |-> Len(objects) + 1]
    ELSE [objects |-> [objects EXCEPT ![ref] = [clusters |-> clusters,
                                                lastUpdated |-> now, run |-> run]],
          cache |-> ref]

FeedCacheSet(objects, ref, clusters, now, run) ==
    [objects |-> Append(objects, [clusters |-> clusters, lastUpdated |-> now,
                                  run |-> run]),
     cache |-> Len(objects) + 1]

\* The promise of rebuildFeed(): the catch block swallows every error, so
\* the async function returns normally.
RebuildPromise(threw) == "resolved"

\* The catch block of rebuildFeed leaves the cache reference alone.
CatchRebuild_Clears(ref) == 0

CatchRebuild(ref) == ref

\* feedCache.set is inside the try block, after the map and the sort.
SetsCache_InFinally(threw) == TRUE

SetsCache_Never(threw) == FALSE

SetsCache(threw) == ~threw

\* GET / rebuilds only on a miss.
ReadRebuilds_Always(cachedData) == TRUE

ReadRebuilds(cachedData) == cachedData = 0

\* The in-memory filter of GET / (index.ts, lines 111-117), as cluster ids.
PageOf(clusters, filter, selectedSources) ==
    LET keep == [c \in Range(clusters) |->
                    /\ Pool[c.mainPost].hoursAge <= WindowHours(filter)
                    /\ c.sourcesInCluster \cap selectedSources # {}]
        kept == FilterSeq(clusters, keep)
    IN [k \in 1..Len(kept) |-> kept[k].id]

Init ==
    /\ store \in InitialStores
    /\ dbTie = TRUE
    /\ clock = 0
    /\ digestHistory \in InitialHistories
    /\ PureIdle /\ FeedIdle /\ DigestIdle

\* server.ts line 13: the initial rebuild, and the timers are armed.
StartWorker ==
    /\ ~workerStarted
    /\ workerStarted' = TRUE
    /\ runs' = CallRebuildFeed(runs, "initial")
    /\ UNCHANGED <<storeVars, pureVars, ingests, cache, feedObjects, lastRead, digestVars>>

\* The 15-minute timer (worker.ts, lines 175-177).
RebuildTimer ==
    /\ workerStarted
    /\ Cardinality(FreeRuns) > PendingChains
    /\ runs' = CallRebuildFeed(runs, "timer")
    /\ UNCHANGED <<storeVars, pureVars, workerStarted, ingests, cache, feedObjects,
                   lastRead, digestVars>>

\* The 60-minute timer and POST /api/update call updateContent first.
StartIngestion(trigger) ==
    /\ workerStarted
    /\ Cardinality(FreeRuns) > PendingChains
    /\ ingests' = [ingests EXCEPT ![trigger] = @ + 1]
    /\ UNCHANGED <<storeVars, pureVars, workerStarted, runs, cache, feedObjects,
                   lastRead, digestVars>>

IngestionTimer == StartIngestion("ingest")

ManualUpdate == StartIngestion("manual")

\* updateContent returns after its upsert (whose error it catches) and the
\* chain calls rebuildFeed, or updateContent throws and the chain ends.
UpdateContentDone(trigger) ==
    /\ ingests[trigger] > 0
    /\ ingests' = [ingests EXCEPT ![trigger] = @ - 1]
    /\ \/ /\ \E batch \in IngestBatches : store' = store \cup batch
          /\ runs' = CallRebuildFeed(runs, trigger)
       \/ UNCHANGED <<store, runs>>
    /\ UNCHANGED <<dbTie, clock, digestHistory, pureVars, workerStarted, cache,
                   feedObjects, lastRead, digestVars>>

\* The database answers the query of a suspended rebuild.
DbRead(r) ==
    /\ runs[r].st = "querying"
    /\ \E ok \in BOOLEAN :
         runs' = [runs EXCEPT ![r].st = "fetched", ![r].failed = ~ok,
                              ![r].rows = IF ok THEN store ELSE {}]
    /\ UNCHANGED <<storeVars, pureVars, workerStarted, ingests, cache, feedObjects,
                   lastRead, digestVars>>

\* The rest of rebuildFeed runs without another await: clustering, the map,
\* the sort and feedCache.set, or the catch block.
RebuildFinish(r) ==
    /\ runs[r].st = "fetched"
    /\ \E clusteredPosts \in {queryClustered(runs[r].rows, "past_week", ALL_SOURCES, dbTie)} :
       \E threw \in {runs[r].failed \/ MapThrows(clusteredPosts)} :
       \E written \in {FeedCacheSet(feedObjects, cache,
                                    IF threw THEN <<>>
                                    ELSE ProcessedClusters(clusteredPosts),
                                    clock, r)} :
          /\ runs' = [runs EXCEPT ![r].st = IF threw THEN "failed" ELSE "completed",
                                  ![r].before = cache,
                                  ![r].promise = RebuildPromise(threw)]
          /\ IF SetsCache(threw)
             THEN cache' = written.cache /\ feedObjects' = written.objects
             ELSE cache' = CatchRebuild(cache) /\ UNCHANGED feedObjects
    /\ UNCHANGED <<storeVars, pureVars, workerStarted, ingests, lastRead, digestVars>>

\* GET / (index.ts, lines 74-154), one synchronous handler.
Read ==
    /\ workerStarted
    /\ \E filter \in {"past_day", "past_week"} :
         IF ReadRebuilds(cache)
         THEN /\ Cardinality(FreeRuns) > PendingChains
              /\ runs' = CallRebuildFeed(runs, "read")
              /\ lastRead' = [kind |-> "initializing", ref |-> cache, seen |-> <<>>,
                              page |-> <<>>,
                              started |-> CHOOSE r \in 1..MaxRuns : runs'[r] # runs[r]]
         ELSE /\ lastRead' = [kind |-> "page", ref |-> cache,
                              seen |-> feedObjects[cache].clusters,
                              page |-> PageOf(feedObjects[cache].clusters, filter,
                                              ALL_SOURCES),
                              started |-> 0]
              /\ UNCHANGED runs
    /\ UNCHANGED <<storeVars, pureVars, workerStarted, ingests, cache, feedObjects,
                   digestVars>>

Tick ==
    /\ clock < MaxClock
    /\ clock' = clock + 1
    /\ UNCHANGED <<store, dbTie, digestHistory, pureVars, feedVars, digestVars>>

NextFeed ==
    \/ StartWorker
    \/ RebuildTimer
    \/ IngestionTimer
    \/ ManualUpdate
    \/ \E trigger \in {"ingest", "manual"} : UpdateContentDone(trigger)
    \/ \E r \in 1..MaxRuns : DbRead(r)
    \/ \E r \in 1..MaxRuns : RebuildFinish(r)
    \/ Read
    \/ Tick

(***************************************************************************)
(* The digest callers: checkDigestSchedule (worker.ts), POST send-digest   *)
(* and POST preview-digest (index.ts), each around createDigest.           *)
(***************************************************************************)
\* The Moscow hour at clock 0, and the check firings that fit in the first
\* 15 minutes of an hour (one every 10 minutes).
StartHour == 8
ChecksPerSlot == 2

mskHour(now) == (StartHour + now) % 24

InDigestSlot(now) == mskHour(now) = 9 \/ mskHour(now) = 21

FreeDigs == {d \in DOMAIN digs : digs[d].kind = "none"}

NewDig(kind, pc, force, now) ==
    [NoDig EXCEPT !.kind = kind, !.pc = pc, !.force = force, !.at = now]

CallDigest(ds, dig) ==
    LET d == CHOOSE x \in DOMAIN ds :
                 /\ ds[x].kind = "none"
                 /\ \A y \in DOMAIN ds : ds[y].kind = "none" => x <= y
    IN [ds EXCEPT ![d] = dig]

\* The end of a request.
Done(dig, result) == [dig EXCEPT !.pc = "done", !.result = result, !.clusters = <<>>]

\* Lines 50-55 of createDigest for the selected list.
Selected(dig, topClusters) ==
    IF NoEligibleClusters(topClusters)
    THEN Done([dig EXCEPT !.filtered = TRUE, !.topClusters = topClusters], "null")
    ELSE [dig EXCEPT !.filtered = TRUE, !.topClusters = topClusters,
                     !.clusters = <<>>, !.pc = "llm"]

\* Lines 34-52 of createDigest for the de-duplicated list.
Select(dig, uniqueClusters) == Selected(dig, DiversityFilter(uniqueClusters))

\* generateDigest throws on an empty list, without a key, or when the
\* request fails (llm.ts).
GenerateThrows(clusters, ok) == Len(clusters) = 0 \/ ~ok

\* What a caller stores, sends and appends for the selected clusters.
Mains(topClusters) == [k \in 1..Len(topClusters) |-> topClusters[k].mainPost]

HistoryItems(topClusters, now) ==
    [k \in 1..Len(topClusters) |->
        HistoryRecord(Pool[topClusters[k].mainPost].embedding, now)]

\* The 10-minute timer inside a slot: getLastDigest, then the history query.
DigestTimer ==
    /\ workerStarted
    /\ FreeDigs # {}
    /\ InDigestSlot(clock)
    /\ Cardinality({d \in DOMAIN digs :
                      digs[d].kind = "sched" /\ digs[d].at = clock}) < ChecksPerSlot
    /\ digs' = CallDigest(digs, NewDig("sched", "hist2", FALSE, clock))
    /\ UNCHANGED <<storeVars, pureVars, feedVars, lastDigestState, lastDigestResult,
                   sink, llmCalls>>

\* getDigestHistory(2) answers: the check goes on only on an empty history.
ScheduleCheck(d) ==
    /\ digs[d].pc = "hist2"
    /\ \E ok \in BOOLEAN :
         LET history == IF ok THEN getDigestHistory(digestHistory, 2, clock) ELSE <<>>
         IN digs' = [digs EXCEPT ![d] = IF Len(history) = 0
                                        THEN [@ EXCEPT !.pc = "query"]
                                        ELSE Done(@, "skipped")]
    /\ UNCHANGED <<storeVars, pureVars, feedVars, lastDigestState, lastDigestResult,
                   sink, llmCalls>>

\* POST /api/admin/send-digest and /api/admin/preview-digest.
DigestRequest(kind) ==
    /\ workerStarted
    /\ FreeDigs # {}
    /\ \E force \in BOOLEAN :
         digs' = CallDigest(digs, NewDig(kind, "query", force, clock))
    /\ UNCHANGED <<storeVars, pureVars, feedVars, lastDigestState, lastDigestResult,
                   sink, llmCalls>>

SendDigest == DigestRequest("send")

PreviewDigest == DigestRequest("preview")

\* createDigest line 7: the item query answers.  With force the selection
\* follows at once.
DigestQuery(d) ==
    /\ digs[d].pc = "query"
    /\ \E ok \in BOOLEAN :
         LET clusters == queryClustered(store, "past_day", ALL_SOURCES, dbTie)
         IN digs' = [digs EXCEPT ![d] =
                       IF ~ok THEN Done(@, "error")
                       ELSE IF @.force THEN Select(@, clusters)
                       ELSE [@ EXCEPT !.pc = "hist36", !.clusters = clusters]]
    /\ UNCHANGED <<storeVars, pureVars, feedVars, lastDigestState, lastDigestResult,
                   sink, llmCalls>>

\* createDigest line 16: the history answers (or fails, and is []).
DigestDedup(d) ==
    /\ digs[d].pc = "hist36"
    /\ \E ok \in BOOLEAN :
         LET history == IF ok THEN getDigestHistory(digestHistory, DEDUP_WINDOW_HOURS, clock)
                        ELSE <<>>
         IN digs' = [digs EXCEPT ![d] =
                       IF DedupThrows(@.clusters, history)
                       THEN Done([@ EXCEPT !.historyFailed = ~ok], "error")
                       ELSE Select([@ EXCEPT !.historyFailed = ~ok],
                                   TemporalDedup(@.clusters, history))]
    /\ UNCHANGED <<storeVars, pureVars, feedVars, lastDigestState, lastDigestResult,
                   sink, llmCalls>>

\* A summarizer step whose failure handler also drops the feed cache.
DigestSummarize_ClearsFeed(d) ==
    /\ digs[d].pc = "llm"
    /\ llmCalls' = Append(llmCalls, Mains(digs[d].topClusters))
    /\ digs' = [digs EXCEPT ![d] = Done([@ EXCEPT !.effects = @ \cup {"llm"}], "error")]
    /\ cache' = 0
    /\ UNCHANGED <<storeVars, pureVars, workerStarted, runs, ingests, feedObjects,
                   lastRead, lastDigestState, lastDigestResult, sink>>

\* createDigest line 55: generateDigest, and the caller's code up to its
\* next await (preview-digest keeps the result in lastDigestResult).
DigestSummarize(d) ==
    /\ digs[d].pc = "llm"
    /\ llmCalls' = Append(llmCalls, Mains(digs[d].topClusters))
    /\ \E ok \in BOOLEAN :
         LET called == [digs[d] EXCEPT !.effects = @ \cup {"llm"}]
             threw == GenerateThrows(digs[d].topClusters, ok)
         IN /\ digs' = [digs EXCEPT ![d] = IF threw THEN Done(called, "error")
                                           ELSE [called EXCEPT !.pc = "save"]]
            /\ lastDigestResult' = IF ~threw /\ digs[d].kind = "preview"
                                   THEN Mains(digs[d].topClusters)
                                   ELSE lastDigestResult
    /\ UNCHANGED <<storeVars, pureVars, feedVars, lastDigestState, sink>>

\* posts.saveLastDigest, which only logs its error.
DigestSave(d) ==
    /\ digs[d].pc = "save"
    /\ \E ok \in BOOLEAN :
         lastDigestState' = IF ok THEN Mains(digs[d].topClusters) ELSE lastDigestState
    /\ digs' = [digs EXCEPT ![d] =
                  LET saved == [@ EXCEPT !.effects = @ \cup {"save"}]
                  IN IF @.kind = "preview" THEN Done(saved, "digest")
                     ELSE [saved EXCEPT !.pc = "send"]]
    /\ UNCHANGED <<storeVars, pureVars, feedVars, lastDigestResult, sink, llmCalls>>

\* sendTelegramMessage.
DigestSend(d) ==
    /\ digs[d].pc = "send"
    /\ \E success \in BOOLEAN :
         /\ sink' = IF success THEN Append(sink, Mains(digs[d].topClusters)) ELSE sink
         /\ digs' = [digs EXCEPT ![d] =
                       LET sent == [@ EXCEPT !.effects = @ \cup {"send"}]
                       IN IF success THEN [sent EXCEPT !.pc = "append"]
                          ELSE Done(sent, "unsent")]
    /\ UNCHANGED <<storeVars, pureVars, feedVars, lastDigestState, lastDigestResult,
                   llmCalls>>

\* posts.addToDigestHistory, which only logs its error.
DigestAppend(d) ==
    /\ digs[d].pc = "append"
    /\ \E ok \in BOOLEAN :
         digestHistory' = IF ok THEN digestHistory \o HistoryItems(digs[d].topClusters, clock)
                          ELSE digestHistory
    /\ digs' = [digs EXCEPT ![d] = Done([@ EXCEPT !.effects = @ \cup {"append"}], "digest")]
    /\ UNCHANGED <<store, dbTie, clock, pureVars, feedVars, lastDigestState,
                   lastDigestResult, sink, llmCalls>>

NextDigest ==
    \/ DigestTimer
    \/ SendDigest
    \/ PreviewDigest
    \/ \E d \in DOMAIN digs : ScheduleCheck(d)
    \/ \E d \in DOMAIN digs : DigestQuery(d)
    \/ \E d \in DOMAIN digs : DigestDedup(d)
    \/ \E d \in DOMAIN digs : DigestSummarize(d)
    \/ \E d \in DOMAIN digs : DigestSave(d)
    \/ \E d \in DOMAIN digs : DigestSend(d)
    \/ \E d \in DOMAIN digs : DigestAppend(d)

Next == NextFeed \/ NextDigest

Spec == Init /\ [][Next]_vars

\* C2: once the feed cache holds a snapshot, no step of the running program
\* (rebuilds that complete or fail, reads, timers, ingestion, digest runs)
\* sets it back to null.
C2_CacheStaysPopulated == [][cache # 0 => cache' # 0]_vars

\* A rebuild failed on a populated cache and a digest request has ended.
C2_Witness ==
    /\ cache # 0
    /\ \E r \in 1..MaxRuns : runs[r].st = "failed" /\ runs[r].before # 0
    /\ \E d \in 1..MaxDigests : digs[d].pc = "done"

\* C3: the step in which a rebuildFeed run fails (the query failed or the
\* map threw) leaves the cache reference and every CachedFeed object, its
\* clusters and its lastUpdated, as they were.
C3_FailedRebuildKeepsCache ==
    [][\A r \in 1..MaxRuns :
          (runs[r].st = "fetched" /\ runs'[r].st = "failed") =>
              (cache' = cache /\ feedObjects' = feedObjects)]_vars

\* A rebuild whose map threw on a populated cache, which is still there.
C3_Witness ==
    \E r \in 1..MaxRuns :
        /\ runs[r].st = "failed"
        /\ ~runs[r].failed
        /\ runs[r].before # 0
        /\ cache = runs[r].before
        /\ Len(feedObjects[cache].clusters) > 0

\* C4: a GET / on an empty cache starts exactly one rebuildFeed, which is
\* still suspended at its query when the handler answers "initializing"; a
\* GET / on a populated cache answers from the cached object and starts none.
C4_ReadOnCache ==
    [][lastRead' # lastRead =>
          IF cache = 0
          THEN /\ lastRead'.kind = "initializing"
               /\ \E r \in 1..MaxRuns :
                    /\ runs[r].st = "new"
                    /\ runs'[r].st = "querying"
                    /\ lastRead'.started = r
                    /\ \A q \in 1..MaxRuns \ {r} : runs'[q] = runs[q]
          ELSE /\ lastRead'.kind = "page"
               /\ lastRead'.ref = cache
               /\ lastRead'.seen = feedObjects[cache].clusters
               /\ runs' = runs]_vars

\* A page was served, after an earlier read had found the cache empty.
C4_Witness ==
    /\ lastRead.kind = "page"
    /\ Len(lastRead.seen) > 0
    /\ \E r \in 1..MaxRuns : runs[r].trigger = "read"

\* What one rebuild computes from the rows its query returned.
OutputOf(run) ==
    ProcessedClusters(queryClustered(run.rows, "past_week", ALL_SOURCES, dbTie))

\* C5: every CachedFeed object is the whole processed and sorted output of
\* one completed rebuild, and the object a reader was handed still holds the
\* clusters the reader saw.
C5_ReadersSeeOneRebuild ==
    /\ \A o \in 1..Len(feedObjects) :
         /\ runs[feedObjects[o].run].st = "completed"
         /\ feedObjects[o].clusters = OutputOf(runs[feedObjects[o].run])
    /\ lastRead.kind = "page" =>
         /\ lastRead.ref \in 1..Len(feedObjects)
         /\ feedObjects[lastRead.ref].clusters = lastRead.seen

\* A reader holds a snapshot that a later rebuild, with other clusters, has
\* replaced in the cache.
C5_Witness ==
    /\ lastRead.kind = "page"
    /\ cache # lastRead.ref
    /\ feedObjects[cache].clusters # lastRead.seen

\* C6: at no time are two rebuildFeed invocations in progress.
C6_SingleRebuild == Cardinality(InProgress) <= 1

\* C10: a createDigest whose selection is empty ends with the null result
\* without a generateDigest call, and its caller neither saves a last-digest
\* state, nor sends to Telegram, nor appends to the digest history.
C10_NoEligibleClusters ==
    \A d \in 1..MaxDigests :
        (digs[d].filtered /\ Len(digs[d].topClusters) = 0) =>
            /\ digs[d].pc = "done"
            /\ digs[d].result = "null"
            /\ digs[d].effects = {}

\* A scheduled check whose only candidate was dropped by the history.
C10_Witness ==
    \E d \in 1..MaxDigests :
        /\ digs[d].kind = "sched"
        /\ digs[d].filtered
        /\ Len(digs[d].topClusters) = 0
        /\ digs[d].result = "null"
        /\ store # {3}

\* C11: no step of a digest request (query, de-duplication, summarizer call
\* that succeeds or fails, save, send, append) changes the feed cache or a
\* cached object, and no step of a rebuildFeed run changes the digest
\* history, the saved last digest or lastDigestResult.
C11_PipelinesIsolated ==
    [][/\ digs' # digs => (cache' = cache /\ feedObjects' = feedObjects)
       /\ runs' # runs => /\ digestHistory' = digestHistory
                          /\ lastDigestState' = lastDigestState
                          /\ lastDigestResult' = lastDigestResult]_vars

\* The summarizer failed on a populated cache, and a rebuild failed while
\* the digest history held a record.
C11_Witness ==
    /\ cache # 0
    /\ \E d \in 1..MaxDigests : digs[d].result = "error" /\ "llm" \in digs[d].effects
    /\ \E r \in 1..MaxRuns : runs[r].st = "failed" /\ runs[r].before # 0
    /\ digestHistory # <<>>

\* C12: a storage failure ends its pipeline stage in an error its caller
\* can see: a createDigest(false) whose history query failed ends in the
\* error result without a summarizer call, and the promise of a rebuildFeed
\* whose item query failed is rejected.
C12_FailuresSurfaced ==
    /\ \A d \in 1..MaxDigests :
         digs[d].historyFailed =>
             /\ digs[d].pc = "done"
             /\ digs[d].result = "error"
    /\ \A r \in 1..MaxRuns :
         (runs[r].st = "failed" /\ runs[r].failed) => runs[r].promise = "rejected"

\* The digest half of C12 alone.
C12_HistoryFailureSurfaced ==
    \A d \in 1..MaxDigests :
        digs[d].historyFailed => (digs[d].pc = "done" /\ digs[d].result = "error")
\* C18: whenever the cache is populated, its cluster list is ordered by
\* boostedScore, non-increasing from first to last, whatever rebuilds ran.
C18_CacheSortedByBoost ==
    cache # 0 =>
        \A k \in 1..(Len(feedObjects[cache].clusters) - 1) :
            feedObjects[cache].clusters[k].boostedScore
                >= feedObjects[cache].clusters[k + 1].boostedScore

\* The cache holds the list of a second successful rebuild, where the sort
\* put a cluster of two sources before a cluster of a higher totalScore.
C18_Witness ==
    /\ cache > 1
    /\ Len(feedObjects[cache].clusters) >= 2
    /\ feedObjects[cache].clusters[1].boostedScore
         > feedObjects[cache].clusters[2].boostedScore
    /\ feedObjects[cache].clusters[1].totalScore
         < feedObjects[cache].clusters[2].totalScore

\* C25: the cache never goes back in data age: the snapshot the cache holds
\* was computed from rows of the item store at least as recent as those of
\* every snapshot published before it (the store only grows, so as recent
\* means a superset of the rows).
C25_CacheNeverOlder ==
    cache # 0 =>
        \A o \in 1..Len(feedObjects) :
            runs[feedObjects[o].run].rows
                \subseteq runs[feedObjects[cache].run].rows

(***************************************************************************)
(* SpecDigest: the digest callers alone, several requests in flight:       *)
(* checkDigestSchedule, POST send-digest, POST preview-digest and POST     *)
(* send-last-digest (index.ts, lines 215-238).                             *)
(***************************************************************************)
MaxDigestRuns == 2
DigestStores == {{1, 9}, {1}}

\* The clusters of lastDigestResult, of which the callers read mainPost.
LastClusters(mains) == [k \in 1..Len(mains) |-> [mainPost |-> mains[k]]]

InitDigest ==
    /\ store \in DigestStores
    /\ dbTie = TRUE
    /\ clock = 0
    /\ digestHistory = <<>>
    /\ PureIdle /\ FeedIdle
    /\ digs = [d \in 1..MaxDigestRuns |-> NoDig]
    /\ lastDigestState = <<>>
    /\ lastDigestResult = <<>>
    /\ sink = <<>>
    /\ llmCalls = <<>>

\* POST /api/admin/send-last-digest up to its await: the content of
\* lastDigestResult goes to sendTelegramMessage.
SendLastDigest ==
    /\ workerStarted
    /\ FreeDigs # {}
    /\ lastDigestResult # <<>>
    /\ digs' = CallDigest(digs, [NewDig("sendlast", "sendlast", FALSE, clock)
                                   EXCEPT !.topClusters = LastClusters(lastDigestResult)])
    /\ UNCHANGED <<storeVars, pureVars, feedVars, lastDigestState, lastDigestResult,
                   sink, llmCalls>>

\* sendTelegramMessage answers send-last-digest; on success the handler
\* reads lastDigestResult.clusters again for addToDigestHistory.
LastDigestSend(d) ==
    /\ digs[d].pc = "sendlast"
    /\ \E success \in BOOLEAN :
         /\ sink' = IF success THEN Append(sink, Mains(digs[d].topClusters)) ELSE sink
         /\ digs' = [digs EXCEPT ![d] =
                       LET sent == [@ EXCEPT !.effects = @ \cup {"send"}]
                       IN IF success
                          THEN [sent EXCEPT !.pc = "append",
                                            !.topClusters = LastClusters(lastDigestResult)]
                          ELSE Done(sent, "unsent")]
    /\ UNCHANGED <<storeVars, pureVars, feedVars, lastDigestState, lastDigestResult,
                   llmCalls>>

NextDigestCallers ==
    \/ StartWorker
    \/ Tick
    \/ NextDigest
    \/ SendLastDigest
    \/ \E d \in DOMAIN digs : LastDigestSend(d)

SpecDigest == InitDigest /\ [][NextDigestCallers]_vars

\* C26: with force = false on every digest run, no step sends a cluster to
\* the sink whose main embedding has a cosine similarity above 0.85 with a
\* topic recorded in the digest history within the trailing 36 hours.
C26_NoRepeatedTopic ==
    [][((\A d \in DOMAIN digs : ~digs'[d].force) /\ Len(sink') > Len(sink)) =>
          \A m \in Range(sink'[Len(sink')]) :
              Pool[m].embedding.has =>
                  \A h \in Range(getDigestHistory(digestHistory, DEDUP_WINDOW_HOURS, clock)) :
                      h.has => ~SimGreater(cosineSimilarity(h.v, Pool[m].embedding.v),
                                           Threshold)]_vars

\* C27: every record the publish paths append to the digest history carries
\* an embedding, so no later createDigest(false) fails on a history entry
\* without one, although clusters whose main post has no embedding can be
\* selected and published.
C27_HistoryHasEmbeddings ==
    \A k \in 1..Len(digestHistory) : digestHistory[k].embedding.has

\* C28: over the scheduler ticks that fall inside one 09:00 or 21:00 window,
\* at most one scheduled digest is sent to the sink, also when two ticks fall
\* inside the window, when the history append fails and when the history
\* query fails.
C28_OneScheduledDigestPerSlot ==
    \A at \in 0..MaxClock :
        Cardinality({d \in DOMAIN digs :
                       /\ digs[d].kind = "sched"
                       /\ digs[d].at = at
                       /\ "send" \in digs[d].effects
                       /\ \/ digs[d].pc = "append"
                          \/ digs[d].pc = "done" /\ digs[d].result = "digest"}) <= 1

(***************************************************************************)
(* The worker under fair scheduling: startWorker's initial rebuild and its *)
(* rebuild and ingestion timers, with no reader and no manual trigger.     *)
(* setInterval keeps firing whatever else runs, the event loop resumes a   *)
(* suspended rebuild once its query is answered, and the item store        *)
(* eventually answers a query with success: at most MaxDbFailures queries  *)
(* of a behaviour fail.  updateContent stores what the fetchers return,    *)
(* and every fetcher gives its posts a url (fetchers.ts).                  *)
(***************************************************************************)
MaxDbFailures == MaxRuns - 1

DbReadLive(r) ==
    /\ DbRead(r)
    /\ Cardinality({x \in 1..MaxRuns : runs'[x].failed}) <= MaxDbFailures

UpdateContentLive(trigger) ==
    /\ UpdateContentDone(trigger)
    /\ \A i \in store' \ store : Pool[i].url.has

NextLive ==
    \/ StartWorker
    \/ RebuildTimer
    \/ IngestionTimer
    \/ UpdateContentLive("ingest")
    \/ \E r \in 1..MaxRuns : DbReadLive(r)
    \/ \E r \in 1..MaxRuns : RebuildFinish(r)
    \/ Tick

\* WF_vars(RebuildFinish(r)) with its ENABLED written out: RebuildFinish(r)
\* has no guard but runs[r].st = "fetched", so it is enabled in exactly the
\* states where run r has been answered and has not yet returned.
FairRebuildFinish(r) ==
    (<>[](runs[r].st = "fetched")) => []<><<RebuildFinish(r)>>_vars

FairLive ==
    /\ SF_vars(RebuildTimer)
    /\ WF_vars(UpdateContentLive("ingest"))
    /\ \A r \in 1..MaxRuns : WF_vars(DbReadLive(r))
    /\ \A r \in 1..MaxRuns : FairRebuildFinish(r)

SpecLive == Init /\ [][NextLive]_vars /\ FairLive

====
